---- MODULE Spec2Model ----
(***************************************************************************)
(* Model of the QCStudy teaching notebooks:                                *)
(*   - "Integrating quantum kernels into scikit-learn": kernel, gram and   *)
(*     the gram_train / gram_test / svm.fit / svm.predict cells;           *)
(*   - "Creating a variational classifier with PennyLane": S, U and        *)
(*     qclassifier;                                                        *)
(*   - "Mapping clustering to discrete optimization": data, w, J, h and    *)
(*     the annealing sample.                                               *)
(***************************************************************************)
EXTENDS Integers, Sequences, FiniteSets, TLC

(***************************************************************************)
(* Bounds of the model.                                                    *)
(***************************************************************************)
MaxLen == 2
MaxKernelVal == 1

None == -1

\* the feature vectors of the example cell, data = [[1, 2], [3, 4]]
Features == {<<1, 2>>, <<3, 4>>}

SeqsUpTo(T, n) == UNION {[1..k -> T] : k \in 0..n}

DataLists == SeqsUpTo(Features, MaxLen)

\* a kernel is any function of two data inputs to a number
Kernels == [Features \X Features -> 0..MaxKernelVal]

kernel_one(x1, x2) == 1

\* the placeholder kernel of the notebook
kernel(x1, x2) == 0

PlaceholderKernel == [p \in Features \X Features |-> kernel(p[1], p[2])]

(***************************************************************************)
(* numpy arrays of two dimensions: a shape and one cell per index pair.    *)
(***************************************************************************)
Indices(shape) == (0..(shape[1] - 1)) \X (0..(shape[2] - 1))

zeros(shape) == [shape |-> shape, data |-> [ix \in Indices(shape) |-> 0]]

InBounds(m, ix) == ix \in Indices(m.shape)

setitem(m, ix, v) == [m EXCEPT !.data = [@ EXCEPT ![ix] = v]]

NoArray == zeros(<<0, 0>>)

VARIABLES
    A, B,          \* the arguments of the running call of gram
    kern,          \* the function the global name kernel is bound to
    gram,          \* the local array of gram
    it1, it2,      \* positions of the two enumerate iterators
    id1, x1,       \* loop variables of the outer loop
    id2, x2,       \* loop variables of the inner loop
    evals,         \* the index pairs kernel was called for, in call order
    pc,            \* the line of gram that runs next
    result,        \* the array gram returned
    X_train, X_test, gram_train, gram_test, svm, predict_in, stage,
    thetas, x,     \* the arguments of the running call of qclassifier
    tape,          \* the operations queued on the device, in order
    itl, theta,    \* the iterator over thetas and its loop variable
    qpc,           \* the line of qclassifier that runs next
    class_1, class_2, data,   \* the generated instances
    w,             \* the array of pairwise distances
    h, J, model,   \* the fields, the couplings and the Ising model built of them
    sigma, energy, \* a sample of the annealer and its energy
    cpc            \* the cell of the clustering notebook that runs next

gramVars == <<A, B, gram, it1, it2, id1, x1, id2, x2, evals, pc, result>>
svmVars == <<X_train, X_test, gram_train, gram_test, svm, predict_in, stage>>
qcVars == <<thetas, x, tape, itl, theta, qpc>>
cutVars == <<class_1, class_2, data, w, h, J, model, sigma, energy, cpc>>
vars == <<gramVars, kern, svmVars, qcVars, cutVars>>

NoModel == [linear |-> <<>>, quadratic |-> <<>>, offset |-> 0, vartype |-> "none"]

CutIdle ==
    /\ class_1 = <<>>
    /\ class_2 = <<>>
    /\ data = <<>>
    /\ w = NoArray
    /\ h = <<>>
    /\ J = <<>>
    /\ model = NoModel
    /\ sigma = <<>>
    /\ energy = 0
    /\ cpc = "idle"

(***************************************************************************)
(* gram(A, B)                                                              *)
(***************************************************************************)
GramShape_swapped == <<Len(B), Len(A)>>

\* the shape handed to np.zeros
GramShape == <<Len(A), Len(B)>>

BodyIndex_onebased == <<id1 + 1, id2 + 1>>

BodyIndex_transposed == <<id2, id1>>

\* the cell the loop body assigns
BodyIndex == <<id1, id2>>

BodyValue_first == kern[<<x1, x1>>]

\* the value the loop body assigns
BodyValue == kern[<<x1, x2>>]

Call(a, b) ==
    /\ A' = a
    /\ B' = b
    /\ gram' = NoArray
    /\ it1' = 0
    /\ it2' = 0
    /\ id1' = None
    /\ x1' = None
    /\ id2' = None
    /\ x2' = None
    /\ evals' = <<>>
    /\ result' = NoArray
    /\ pc' = "zeros"

\* gram = np.zeros((len(A), len(B)))
GramZeros ==
    /\ pc = "zeros"
    /\ gram' = zeros(GramShape)
    /\ pc' = "outer"
    /\ UNCHANGED <<A, B, it1, it2, id1, x1, id2, x2, evals, result, kern, svmVars, qcVars, cutVars>>

OuterNext_triangular ==
    /\ pc = "outer"
    /\ it1 < Len(A)
    /\ id1' = it1
    /\ x1' = A[it1 + 1]
    /\ it1' = it1 + 1
    /\ it2' = it1
    /\ pc' = "inner"
    /\ UNCHANGED <<A, B, gram, id2, x2, evals, result, kern, svmVars, qcVars, cutVars>>

\* for id1, x1 in enumerate(A): the next item of A
OuterNext ==
    /\ pc = "outer"
    /\ it1 < Len(A)
    /\ id1' = it1
    /\ x1' = A[it1 + 1]
    /\ it1' = it1 + 1
    /\ it2' = 0
    /\ pc' = "inner"
    /\ UNCHANGED <<A, B, gram, id2, x2, evals, result, kern, svmVars, qcVars, cutVars>>

\* for id1, x1 in enumerate(A): A is exhausted
OuterDone ==
    /\ pc = "outer"
    /\ it1 >= Len(A)
    /\ pc' = "return"
    /\ UNCHANGED <<A, B, gram, it1, it2, id1, x1, id2, x2, evals, result, kern, svmVars, qcVars, cutVars>>

\* for id2, x2 in enumerate(B): the next item of B
InnerNext ==
    /\ pc = "inner"
    /\ it2 < Len(B)
    /\ id2' = it2
    /\ x2' = B[it2 + 1]
    /\ it2' = it2 + 1
    /\ pc' = "body"
    /\ UNCHANGED <<A, B, gram, it1, id1, x1, evals, result, kern, svmVars, qcVars, cutVars>>

\* for id2, x2 in enumerate(B): B is exhausted
InnerDone ==
    /\ pc = "inner"
    /\ it2 >= Len(B)
    /\ pc' = "outer"
    /\ UNCHANGED <<A, B, gram, it1, it2, id1, x1, id2, x2, evals, result, kern, svmVars, qcVars, cutVars>>

\* gram[id1, id2] = kernel(x1, x2); an index outside the array raises IndexError
Body ==
    /\ pc = "body"
    /\ evals' = Append(evals, <<id1, id2>>)
    /\ IF InBounds(gram, BodyIndex)
          THEN /\ gram' = setitem(gram, BodyIndex, BodyValue)
               /\ pc' = "inner"
          ELSE /\ gram' = gram
               /\ pc' = "error"
    /\ UNCHANGED <<A, B, it1, it2, id1, x1, id2, x2, result, kern, svmVars, qcVars, cutVars>>

\* return gram
Return ==
    /\ pc = "return"
    /\ result' = gram
    /\ pc' = "done"
    /\ UNCHANGED <<A, B, gram, it1, it2, id1, x1, id2, x2, evals, kern, svmVars, qcVars, cutVars>>

GramStep ==
    \/ GramZeros
    \/ OuterNext
    \/ OuterDone
    \/ InnerNext
    \/ InnerDone
    \/ Body
    \/ Return

(***************************************************************************)
(* The data preparation and training cells.                                *)
(***************************************************************************)
Unfitted == <<None, None>>

GramTestArgs_swapped == <<X_train, X_test>>

\* gram_train = gram(X_train, X_train)
GramTrainArgs == <<X_train, X_train>>

\* gram_test = gram(X_test, X_train)
GramTestArgs == <<X_test, X_train>>

CallGramTrain ==
    /\ stage = "split"
    /\ Call(GramTrainArgs[1], GramTrainArgs[2])
    /\ stage' = "gram_train"
    /\ UNCHANGED <<kern, X_train, X_test, gram_train, gram_test, svm, predict_in, qcVars, cutVars>>

AssignGramTrain ==
    /\ stage = "gram_train"
    /\ pc = "done"
    /\ gram_train' = result
    /\ stage' = "have_train"
    /\ UNCHANGED <<gramVars, kern, X_train, X_test, gram_test, svm, predict_in, qcVars, cutVars>>

CallGramTest ==
    /\ stage = "have_train"
    /\ Call(GramTestArgs[1], GramTestArgs[2])
    /\ stage' = "gram_test"
    /\ UNCHANGED <<kern, X_train, X_test, gram_train, gram_test, svm, predict_in, qcVars, cutVars>>

AssignGramTest ==
    /\ stage = "gram_test"
    /\ pc = "done"
    /\ gram_test' = result
    /\ stage' = "have_test"
    /\ UNCHANGED <<gramVars, kern, X_train, X_test, gram_train, svm, predict_in, qcVars, cutVars>>

\* svm.fit(gram_train, y_train): a precomputed kernel must be square
Fit ==
    /\ stage = "have_test"
    /\ IF gram_train.shape[1] = gram_train.shape[2]
          THEN /\ svm' = gram_train.shape
               /\ stage' = "fitted"
          ELSE /\ svm' = svm
               /\ stage' = "ValueError"
    /\ UNCHANGED <<gramVars, kern, X_train, X_test, gram_train, gram_test, predict_in, qcVars, cutVars>>

\* svm.predict(gram_test): one column per sample seen by fit
Predict ==
    /\ stage = "fitted"
    /\ predict_in' = gram_test
    /\ IF gram_test.shape[2] = svm[1]
          THEN stage' = "predicted"
          ELSE stage' = "ValueError"
    /\ UNCHANGED <<gramVars, kern, X_train, X_test, gram_train, gram_test, svm, qcVars, cutVars>>

SvmIdle ==
    /\ X_train = <<>>
    /\ X_test = <<>>
    /\ gram_train = NoArray
    /\ gram_test = NoArray
    /\ svm = Unfitted
    /\ predict_in = NoArray
    /\ stage = "none"

GramIdle ==
    /\ A = <<>>
    /\ B = <<>>
    /\ gram = NoArray
    /\ it1 = 0
    /\ it2 = 0
    /\ id1 = None
    /\ x1 = None
    /\ id2 = None
    /\ x2 = None
    /\ evals = <<>>
    /\ result = NoArray
    /\ pc = "idle"

(***************************************************************************)
(* The variational classifier: S, U and qclassifier.                       *)
(***************************************************************************)
MaxLayers == 3
MaxThetaRow == 1
MaxAngle == 1

\* the rows of thetas: six parameters each
ThetaRows == {[k \in 1..6 |-> 6 * r + k] : r \in 0..MaxThetaRow}

Inputs == (0..MaxAngle) \X (0..MaxAngle)

RX(phi, wire) == [name |-> "RX", params |-> <<phi>>, wires |-> <<wire>>]

Rot(phi, th, omega, wire) == [name |-> "Rot", params |-> <<phi, th, omega>>, wires |-> <<wire>>]

CNOT(ws) == [name |-> "CNOT", params |-> <<>>, wires |-> ws]

PauliZ(wire) == [name |-> "expval.PauliZ", params |-> <<>>, wires |-> <<wire>>]

\* def S(x): the gates it queues
S(xx) == <<RX(xx[1], 0), RX(xx[2], 1)>>

\* def U(theta): the gates it queues
U(th) == <<Rot(th[1], th[2], th[3], 0), Rot(th[4], th[5], th[6], 0), CNOT(<<1, 0>>)>>

NextTheta_reversed == thetas[Len(thetas) - itl]

\* for theta in thetas: the row the iterator yields
NextTheta == thetas[itl + 1]

\* S(x)
QS ==
    /\ qpc = "S"
    /\ tape' = tape \o S(x)
    /\ qpc' = "loop"
    /\ UNCHANGED <<thetas, x, itl, theta, gramVars, kern, svmVars, cutVars>>

\* for theta in thetas: the next row
QLoopNext ==
    /\ qpc = "loop"
    /\ itl < Len(thetas)
    /\ theta' = NextTheta
    /\ itl' = itl + 1
    /\ qpc' = "U"
    /\ UNCHANGED <<thetas, x, tape, gramVars, kern, svmVars, cutVars>>

\* for theta in thetas: thetas is exhausted
QLoopDone ==
    /\ qpc = "loop"
    /\ itl >= Len(thetas)
    /\ qpc' = "expval"
    /\ UNCHANGED <<thetas, x, tape, itl, theta, gramVars, kern, svmVars, cutVars>>

\* U(theta)
QU ==
    /\ qpc = "U"
    /\ tape' = tape \o U(theta)
    /\ qpc' = "loop"
    /\ UNCHANGED <<thetas, x, itl, theta, gramVars, kern, svmVars, cutVars>>

\* return qml.expval.PauliZ(0)
QReturn ==
    /\ qpc = "expval"
    /\ tape' = Append(tape, PauliZ(0))
    /\ qpc' = "done"
    /\ UNCHANGED <<thetas, x, itl, theta, gramVars, kern, svmVars, cutVars>>

QcIdle ==
    /\ thetas = <<>>
    /\ x = None
    /\ tape = <<>>
    /\ itl = 0
    /\ theta = None
    /\ qpc = "idle"

\* one evaluation qclassifier(thetas, x=x)
InitQC ==
    /\ GramIdle
    /\ kern = PlaceholderKernel
    /\ SvmIdle
    /\ thetas \in SeqsUpTo(ThetaRows, MaxLayers)
    /\ x \in Inputs
    /\ tape = <<>>
    /\ itl = 0
    /\ theta = None
    /\ qpc = "S"
    /\ CutIdle

NextQC ==
    \/ QS
    \/ QLoopNext
    \/ QLoopDone
    \/ QU
    \/ QReturn

SpecQC == InitQC /\ [][NextQC]_vars

(***************************************************************************)
(* The clustering notebook: data, w, the Ising model and a sample.         *)
(* Coordinates are counted in units of 0.05; distances are counted in      *)
(* units of 0.05 / NormScale and rounded down.                             *)
(***************************************************************************)
MaxRand == 2
NormScale == 10

n_instances == 4

Dim == 3

\* np.random.rand(n_instances//2, 3)/5: every coordinate lies in [0, 0.2)
RandRows == [1..Dim -> {0, MaxRand}]

\* (0.6, 0.1, 0.05)
Class2Offset == <<12, 2, 1>>

Half == n_instances \div 2

Nodes == 0..(n_instances - 1)

RECURSIVE SumSet(_, _)
SumSet(T, f) ==
    IF T = {} THEN 0
    ELSE LET e == CHOOSE c \in T : TRUE
         IN  f[e] + SumSet(T \ {e}, f)

ISqrt(v) == CHOOSE r \in 0..v : r * r <= v /\ v < (r + 1) * (r + 1)

\* np.linalg.norm
norm(v) == ISqrt(NormScale * NormScale * SumSet(1..Dim, [k \in 1..Dim |-> v[k] * v[k]]))

Minus(u, v) == [k \in 1..Dim |-> u[k] - v[k]]

WEntry_upper(i, j) == IF i < j THEN norm(Minus(data[i + 1], data[j + 1])) ELSE 0

\* w[i, j] = np.linalg.norm(data[i]-data[j])
WEntry(i, j) == norm(Minus(data[i + 1], data[j + 1]))

JEntry_negated(i, j) == 0 - w.data[<<i, j>>]

JEntry_diagonal(i, j) == w.data[<<i, i>>]

\* J[(i, j)] = w[i, j]
JEntry(i, j) == w.data[<<i, j>>]

\* h[i] = 0
HEntry(i) == 0

\* dimod.SPIN
SpinValues == {-1, 1}

Spins == [Nodes -> SpinValues]

\* the energy dimod assigns to a sample of a binary quadratic model
Energy(m, s) ==
    SumSet(DOMAIN m.linear, [i \in DOMAIN m.linear |-> m.linear[i] * s[i]])
    + SumSet(DOMAIN m.quadratic,
             [e \in DOMAIN m.quadratic |-> m.quadratic[e] * s[e[1]] * s[e[2]]])
    + m.offset

\* data = np.concatenate((class_1, class_2))
Concatenate ==
    /\ cpc = "data"
    /\ data' = class_1 \o class_2
    /\ cpc' = "w"
    /\ UNCHANGED <<class_1, class_2, w, h, J, model, sigma, energy, gramVars, kern, svmVars, qcVars>>

\* w = np.zeros(...); for i, j in itertools.product(...): w[i, j] = ...
ComputeW ==
    /\ cpc = "w"
    /\ w' = [shape |-> <<n_instances, n_instances>>,
             data |-> [ix \in Indices(<<n_instances, n_instances>>) |-> WEntry(ix[1], ix[2])]]
    /\ cpc' = "model"
    /\ UNCHANGED <<class_1, class_2, data, h, J, model, sigma, energy, gramVars, kern, svmVars, qcVars>>

\* J, h = {}, {}; the two loops; model = dimod.BinaryQuadraticModel(h, J, 0.0, dimod.SPIN)
BuildModel ==
    /\ cpc = "model"
    /\ h' = [i \in Nodes |-> HEntry(i)]
    /\ J' = [e \in {p \in Nodes \X Nodes : p[1] < p[2]} |-> JEntry(e[1], e[2])]
    /\ model' = [linear |-> h', quadratic |-> J', offset |-> 0, vartype |-> "SPIN"]
    /\ cpc' = "sample"
    /\ UNCHANGED <<class_1, class_2, data, w, sigma, energy, gramVars, kern, svmVars, qcVars>>

\* response = sampler.sample(model, ...): simulated annealing may return any
\* assignment of spins
Sample ==
    /\ cpc = "sample"
    /\ \E s \in Spins :
          /\ sigma' = s
          /\ energy' = Energy(model, s)
    /\ cpc' = "sampled"
    /\ UNCHANGED <<class_1, class_2, data, w, h, J, model, gramVars, kern, svmVars, qcVars>>

InitCut ==
    /\ GramIdle
    /\ kern = PlaceholderKernel
    /\ SvmIdle
    /\ QcIdle
    /\ class_1 \in [1..Half -> RandRows]
    /\ class_2 \in [1..Half -> {[k \in 1..Dim |-> Class2Offset[k] + r[k]] : r \in RandRows}]
    /\ data = <<>>
    /\ w = NoArray
    /\ h = <<>>
    /\ J = <<>>
    /\ model = NoModel
    /\ sigma = <<>>
    /\ energy = 0
    /\ cpc = "data"

NextCut ==
    \/ Concatenate
    \/ ComputeW
    \/ BuildModel
    \/ Sample

SpecCut == InitCut /\ [][NextCut]_vars

(***************************************************************************)
(* A call gram(A, B) with any two lists and any kernel.                    *)
(***************************************************************************)
Init ==
    /\ A \in DataLists
    /\ B \in DataLists
    /\ kern \in Kernels
    /\ gram = NoArray
    /\ it1 = 0
    /\ it2 = 0
    /\ id1 = None
    /\ x1 = None
    /\ id2 = None
    /\ x2 = None
    /\ evals = <<>>
    /\ result = NoArray
    /\ pc = "zeros"
    /\ SvmIdle
    /\ QcIdle
    /\ CutIdle

Next == GramStep

Spec == Init /\ [][Next]_vars

FairSpec == Spec /\ WF_vars(Next)

(***************************************************************************)
(* The notebook from train_test_split to svm.predict.                      *)
(***************************************************************************)
InitSVM ==
    /\ GramIdle
    /\ kern \in Kernels
    /\ X_train \in DataLists \ {<<>>}
    /\ X_test \in DataLists \ {<<>>}
    /\ gram_train = NoArray
    /\ gram_test = NoArray
    /\ svm = Unfitted
    /\ predict_in = NoArray
    /\ stage = "split"
    /\ QcIdle
    /\ CutIdle

NextSVM ==
    \/ GramStep
    \/ CallGramTrain
    \/ AssignGramTrain
    \/ CallGramTest
    \/ AssignGramTest
    \/ Fit
    \/ Predict

SpecSVM == InitSVM /\ [][NextSVM]_vars

(***************************************************************************)
(* Properties of gram.                                                     *)
(***************************************************************************)
Rows(a) == 0..(Len(a) - 1)

IsSymmetricKernel(k) == \A a \in Features, b \in Features : k[<<a, b>>] = k[<<b, a>>]

IsSymmetricArray(m) ==
    \A ix \in Indices(m.shape) :
        /\ InBounds(m, <<ix[2], ix[1]>>)
        /\ m.data[ix] = m.data[<<ix[2], ix[1]>>]

\* C1: the array gram(A, B) returns holds kernel(A[i], B[j]) in row i and
\* column j, for every index i of A and every index j of B.
C1_GramEntries ==
    pc = "done" =>
        \A i \in Rows(A), j \in Rows(B) :
            /\ InBounds(result, <<i, j>>)
            /\ result.data[<<i, j>>] = kern[<<A[i + 1], B[j + 1]>>]

C1_Witness ==
    /\ pc = "done"
    /\ Len(A) = 2
    /\ Len(B) = 1
    /\ result.data[<<0, 0>>] = 1
    /\ result.data[<<1, 0>>] = 0

\* C2: from np.zeros on, through every step of the loops and in the returned
\* value, the array has exactly len(A) rows and len(B) columns.
C2_Shape ==
    /\ pc \in {"outer", "inner", "body", "return", "done", "error"} =>
          /\ gram.shape = <<Len(A), Len(B)>>
          /\ DOMAIN gram.data = Rows(A) \X Rows(B)
    /\ pc = "done" =>
          /\ result.shape = <<Len(A), Len(B)>>
          /\ DOMAIN result.data = Rows(A) \X Rows(B)

C2_Witness ==
    /\ pc = "done"
    /\ Len(A) = 2
    /\ Len(B) = 1
    /\ result.shape = <<2, 1>>

\* C3 as stated: gram(A, A) is square and symmetric for every kernel,
\* symmetric or not.
C3_SymmetricAnyKernel ==
    (pc = "done" /\ A = B) =>
        /\ result.shape = <<Len(A), Len(A)>>
        /\ IsSymmetricArray(result)

\* C3: gram(A, A) is a square len(A) x len(A) array, and it is symmetric
\* whenever the kernel is symmetric.
C3_SymmetricForSymmetricKernel ==
    (pc = "done" /\ A = B) =>
        /\ result.shape = <<Len(A), Len(A)>>
        /\ IsSymmetricKernel(kern) => IsSymmetricArray(result)

C3_Witness ==
    /\ pc = "done"
    /\ A = B
    /\ Len(A) = 2
    /\ A[1] # A[2]
    /\ IsSymmetricKernel(kern)
    /\ result.data[<<0, 0>>] = 0
    /\ result.data[<<0, 1>>] = 1
    /\ result.data[<<1, 0>>] = 1

\* C4: gram never raises, every call returns, and with an empty A or an
\* empty B it returns an array of shape (len(A), len(B)) without having
\* called kernel.
C4_NoErrorTerminates ==
    /\ [](pc # "error")
    /\ <>(pc = "done")
    /\ []((pc = "done" /\ (A = <<>> \/ B = <<>>)) =>
            /\ evals = <<>>
            /\ result.shape = <<Len(A), Len(B)>>)

C4_Witness ==
    /\ pc = "done"
    /\ A = <<>>
    /\ Len(B) = 2
    /\ evals = <<>>
    /\ result.shape = <<0, 2>>

\* C5: with the placeholder kernel, gram(A, B) is the len(A) x len(B) array
\* of zeros.
C5_PlaceholderZero ==
    (pc = "done" /\ kern = PlaceholderKernel) =>
        result = zeros(<<Len(A), Len(B)>>)

C5_Witness ==
    /\ pc = "done"
    /\ kern = PlaceholderKernel
    /\ Len(A) = 2
    /\ Len(B) = 2
    /\ Len(evals) = 4
    /\ result.data[<<1, 1>>] = 0

\* C6: the array handed to svm.predict is gram(X_test, X_train): one row per
\* test point, one column per training point, kernel(X_test[i], X_train[j])
\* in row i and column j, and as many columns as the square array handed to
\* svm.fit has rows; neither fit nor predict rejects its array.
C6_TestGram ==
    /\ stage # "ValueError"
    /\ stage = "predicted" =>
          /\ predict_in = gram_test
          /\ svm = gram_train.shape
          /\ gram_train.shape = <<Len(X_train), Len(X_train)>>
          /\ gram_test.shape = <<Len(X_test), Len(X_train)>>
          /\ gram_test.shape[2] = gram_train.shape[1]
          /\ \A i \in Rows(X_test), j \in Rows(X_train) :
                /\ InBounds(predict_in, <<i, j>>)
                /\ predict_in.data[<<i, j>>] = kern[<<X_test[i + 1], X_train[j + 1]>>]

C6_Witness ==
    /\ stage = "predicted"
    /\ Len(X_test) = 1
    /\ Len(X_train) = 2
    /\ predict_in.shape = <<1, 2>>
    /\ predict_in.data[<<0, 0>>] = 0
    /\ predict_in.data[<<0, 1>>] = 1

(***************************************************************************)
(* Properties of qclassifier.                                              *)
(***************************************************************************)
IsS(k) ==
    /\ tape[k] = RX(x[1], 0)
    /\ tape[k + 1] = RX(x[2], 1)

IsU(k, th) ==
    /\ tape[k] = Rot(th[1], th[2], th[3], 0)
    /\ tape[k + 1] = Rot(th[4], th[5], th[6], 0)
    /\ tape[k + 2] = CNOT(<<1, 0>>)

\* C7: the operations queued by one evaluation of qclassifier are, in order:
\* the two gates of S(x), then for each row of thetas in row order the three
\* gates of U(row), then the PauliZ expectation of wire 0 and nothing after
\* it; while the evaluation runs, the queue holds S(x) before any U and no
\* measurement.
C7_CircuitOrder ==
    /\ qpc \in {"loop", "U", "expval"} =>
          /\ Len(tape) = 2 + 3 * (IF qpc = "U" THEN itl - 1 ELSE itl)
          /\ IsS(1)
          /\ \A l \in 1..((Len(tape) - 2) \div 3) : IsU(3 * l, thetas[l])
    /\ qpc = "done" =>
          /\ Len(tape) = 3 * Len(thetas) + 3
          /\ IsS(1)
          /\ \A l \in 1..Len(thetas) : IsU(3 * l, thetas[l])
          /\ tape[Len(tape)] = PauliZ(0)

C7_Witness ==
    /\ qpc = "done"
    /\ Len(thetas) = 3
    /\ thetas[1] # thetas[2]
    /\ Len(tape) = 12
    /\ tape[12] = PauliZ(0)

(***************************************************************************)
(* Properties of the max-cut mapping.                                      *)
(***************************************************************************)
V1(s) == {i \in Nodes : s[i] = 1}

V2(s) == {i \in Nodes : s[i] = -1}

\* the sum of w[i][j] over i in V1 and j in V2
CutCost(s) == SumSet(V1(s) \X V2(s), [e \in V1(s) \X V2(s) |-> w.data[e]])

\* the sum of w[i][j] * (1 - sigma_i * sigma_j) over all ordered pairs
IsingSum(s) == SumSet(Nodes \X Nodes, [e \in Nodes \X Nodes |-> w.data[e] * (1 - s[e[1]] * s[e[2]])])

ZeroDiagonal(m) == \A i \in Nodes : m.data[<<i, i>>] = 0

IsMinEnergy(s) == \A t \in Spins : Energy(model, s) <= Energy(model, t)

IsMaxCut(s) == \A t \in Spins : CutCost(t) <= CutCost(s)

Class1 == 0..(Half - 1)

Class2 == Half..(n_instances - 1)

\* every distance between the classes exceeds every distance within a class
Separated ==
    \A i \in Class1, j \in Class2 :
        \A k \in Nodes, l \in Nodes :
            ((k \in Class1) = (l \in Class1)) => w.data[<<k, l>>] < w.data[<<i, j>>]

MatchesClasses(s) ==
    /\ \A i \in Nodes, j \in Nodes : ((i \in Class1) = (j \in Class1)) => s[i] = s[j]
    /\ s[0] # s[Half]

\* C8: the array w of the notebook is symmetric with a zero diagonal, every
\* sample is an assignment of -1 and +1, and for it the cut cost, the sum of
\* w[i][j] over i in V1 and j in V2, is a quarter of the sum over all
\* ordered pairs of w[i][j] * (1 - sigma_i * sigma_j).
C8_CutIsIsing ==
    cpc = "sampled" =>
        /\ IsSymmetricArray(w)
        /\ ZeroDiagonal(w)
        /\ sigma \in [Nodes -> {-1, 1}]
        /\ 4 * CutCost(sigma) = IsingSum(sigma)

C8_Witness ==
    /\ cpc = "sampled"
    /\ V1(sigma) = {0, 2}
    /\ V2(sigma) = {1, 3}
    /\ CutCost(sigma) > 0
    /\ w.data[<<0, 1>>] > 0
    /\ w.data[<<0, 1>>] # w.data[<<2, 3>>]

\* C9: the model handed to the sampler has h[i] = 0, J[(i, j)] = w[i, j] for
\* i < j, offset 0 and SPIN variables, and a sample has the least energy of
\* all spin assignments exactly if it has the greatest cut cost of all.
C9_MinEnergyIsMaxCut ==
    cpc = "sampled" =>
        /\ model.vartype = "SPIN"
        /\ model.offset = 0
        /\ energy = SumSet(DOMAIN J, [e \in DOMAIN J |-> J[e] * sigma[e[1]] * sigma[e[2]]])
        /\ IsMinEnergy(sigma) <=> IsMaxCut(sigma)

C9_Witness ==
    /\ cpc = "sampled"
    /\ IsMinEnergy(sigma)
    /\ IsMaxCut(sigma)
    /\ energy < 0
    /\ CutCost(sigma) > 0

\* C10: with two classes of n_instances // 2 instances each and every
\* distance between the classes larger than every distance within a class,
\* a sample is a maximum cut, and a minimum of the energy, exactly if it
\* puts class 1 in one partition and class 2 in the other.
C10_OptimumMatchesClasses ==
    (cpc = "sampled" /\ Separated) =>
        /\ IsMaxCut(sigma) <=> MatchesClasses(sigma)
        /\ IsMinEnergy(sigma) <=> MatchesClasses(sigma)

C10_Witness ==
    /\ cpc = "sampled"
    /\ Separated
    /\ IsMinEnergy(sigma)
    /\ sigma[0] = -1
    /\ sigma[1] = -1
    /\ sigma[2] = 1
    /\ sigma[3] = 1
    /\ w.data[<<0, 1>>] > 0

\* C11: the data set has ten rows, rows 0..4 are the rows of class_1 and
\* rows 5..9 the rows of class_2, and in a sample of minimum energy the first
\* five instances lie in the same partition.
C11_FiveAndFive ==
    cpc \in {"w", "model", "sample", "sampled"} =>
        /\ Len(data) = 10
        /\ Len(class_1) = 5
        /\ Len(class_2) = 5
        /\ \A i \in 1..5 : data[i] = class_1[i]
        /\ \A i \in 6..10 : data[i] = class_2[i - 5]
        /\ (cpc = "sampled" /\ IsMinEnergy(sigma)) =>
              \A i \in 0..4 : sigma[i] = sigma[0]

\* the index pairs of a len(a) x len(b) array in row-major order
RowMajor(a, b) ==
    [k \in 1..(Len(a) * Len(b)) |-> <<(k - 1) \div Len(b), (k - 1) % Len(b)>>]

IsPrefix(p, q) ==
    /\ Len(p) <= Len(q)
    /\ \A k \in 1..Len(p) : p[k] = q[k]

\* C12: every call of gram returns, and by then kernel has been called
\* exactly once for each index pair (i, j), len(A) * len(B) times in all, in
\* row-major order; while the call runs, the pairs evaluated so far are the
\* first pairs of that order, so none is evaluated twice and none skipped.
C12_RowMajorOnce ==
    /\ [](IsPrefix(evals, RowMajor(A, B)))
    /\ []((pc \in {"return", "done"}) =>
            /\ Len(evals) = Len(A) * Len(B)
            /\ evals = RowMajor(A, B))
    /\ <>(pc = "done")

C12_Witness ==
    /\ pc = "done"
    /\ Len(A) = 2
    /\ Len(B) = 2
    /\ evals = <<<<0, 0>>, <<0, 1>>, <<1, 0>>, <<1, 1>>>>

====
